---- MODULE Spec2Model ----
(***************************************************************************)
(* A model of dredge.multi (src/multi.py): the partitioner                 *)
(* (get_num_tasks, get_multiprocess_slice_ranges,                          *)
(* sort_file_paths_for_load_balancing), the dispatcher (do_multi_process), *)
(* the CSV-dump worker task (_dump_into_csv_task), the merger              *)
(* (merge_csv_files) and the pipeline (do_multi_parse_to_csv).             *)
(*                                                                         *)
(* Spec      the pipeline run on a fresh output folder, the main process   *)
(*           and the worker processes interleaved step by step.            *)
(* FairSpec  Spec with every process scheduled again and again.            *)
(* DispatchSpec  do_multi_process called on its own with the CSV-dump      *)
(*           task, every process scheduled again and again.                *)
(* PartSpec  the two arithmetic partitioner functions applied to inputs    *)
(*           drawn from bounded sets.                                      *)
(* SortSpec  sort_file_paths_for_load_balancing applied to bounded inputs. *)
(* MergeSpec merge_csv_files applied to bounded input files, once and on   *)
(*           the input list repeated twice.                                *)
(* StaleSpec the pipeline run on an output folder that holds the           *)
(*           per-worker files of an earlier job that did not finish.       *)
(* DownloadSpec  mass_download (src/downloader.py), terminated at any      *)
(*           point and called again on the same output directory.          *)
(***************************************************************************)
EXTENDS Integers, Sequences, FiniteSets, TLC

\* ------------------------------------------------------------------ bounds
\* the largest number of input files of a pipeline run
MaxFiles == 2
\* the largest number of cores of the host
MaxCpu == 2
\* the largest CPU_COUNT and cores_to_reserve of PartSpec
MaxCores == 6
MaxReserve == 8
\* the largest data_count and num_tasks given to the slicer in PartSpec
MaxData == 16
\* SortSpec: the longest input collection, the largest file size and the
\* largest task_count given to sort_file_paths_for_load_balancing
MaxSortLen == 3
MaxSortFiles == 3
MaxSize == 2
MaxSortTasks == 4
\* MergeSpec: the most rows of an input file and the longest list of inputs
MaxRows == 2
MaxMergeInputs == 2
\* DownloadSpec: the longest collection of item ids, the largest
\* download_burst_count, the largest page count of an item and the number of
\* calls of mass_download on one output directory
MaxItems == 2
MaxBurst == 2
MaxPages == 1
MaxRuns == 2

VARIABLES
    \* ---- the inputs of do_multi_parse_to_csv and the host
    file_paths,         \* the caller's collection of input paths
    st_size,            \* os.stat(path).st_size of every input file
    parser_func,        \* what parser_func does on every input file
    CPU_COUNT,          \* multiprocessing.cpu_count()
    cores_to_reserve,
    include_headers,
    are_ids_unique,
    \* ---- the main process: do_multi_parse_to_csv and do_multi_process
    called,             \* the function the caller has called
    pc,                 \* where the main process is
    task_count,
    sorted_file_paths,
    probe_i,            \* the index i of the header loop
    csv_headers,        \* <<>> stands for None
    cls,                \* the entry class: "Note", or "None"
    num_tasks,          \* do_multi_process's countdown
    slice_ranges,
    started,            \* how many of the consumers have been started
    results_queue,      \* the multiprocessing.Queue
    results,
    \* ---- the worker processes, by task index
    wpc,                \* where worker x is
    wi,                 \* worker x's loop index i
    \* ---- the file system under output_folder
    fs,
    \* ---- history (not read by the program)
    calls,              \* the paths worker x has given to parser_func, in order
    arrival,            \* every value put on results_queue, in order
    \* ---- PartSpec
    p_pc,
    p_num_tasks,
    p_data_count,
    p_ranges,
    p_tasks,
    \* ---- SortSpec
    s_pc,
    \* ---- MergeSpec: merge_csv_files and its arguments
    m_pc,
    m_input_paths,      \* the argument input_paths
    entry_class,        \* "Note", or "None"
    final_output,       \* what the call wrote, and whether it returned
    final_output_twice, \* the same of the call on the input list twice over
    \* ---- DownloadSpec: mass_download (src/downloader.py)
    item_ids,
    get_max_page_expression,    \* "None" (single-page mode), or "lambda"
    download_burst_count,
    d_pc,                       \* where mass_download is
    listdir,                    \* the downloaded files in output_directory
    error_log,                  \* errors.csv: whether it exists, its id column
    existing_downloaded_data,
    d_i,                        \* the index of item_id in item_ids, from 0
    max_page,
    page_number,
    download_count,
    \* ---- history of the calls of mass_download (not read by the program)
    d_run,                      \* the number of the call on output_directory
    d_completed,                \* a call before this one has returned
    d_at_start,                 \* listdir and error_log when the call was made
    d_requested,                \* the item ids requested of the network in this call
    d_requests,                 \* the requests issued since the call's last sleep
    d_attempted                 \* the items attempted since the call's last sleep

vars == << file_paths, st_size, parser_func, CPU_COUNT, cores_to_reserve,
           include_headers, are_ids_unique, called, pc, task_count, sorted_file_paths,
           probe_i, csv_headers, cls, num_tasks, slice_ranges, started,
           results_queue, results, wpc, wi, fs, calls, arrival,
           p_pc, p_num_tasks, p_data_count, p_ranges, p_tasks, s_pc,
           m_pc, m_input_paths, entry_class, final_output, final_output_twice,
           item_ids, get_max_page_expression, download_burst_count, d_pc,
           listdir, error_log, existing_downloaded_data, d_i, max_page,
           page_number, download_count, d_run, d_completed, d_at_start,
           d_requested, d_requests, d_attempted >>

inputVars == << file_paths, st_size, parser_func, CPU_COUNT, cores_to_reserve,
                include_headers, are_ids_unique, called >>
partVars == << p_pc, p_num_tasks, p_data_count, p_ranges, p_tasks >>
workerVars == << wpc, wi, calls >>
sortVars == << s_pc >>
\* the variables of the specifications of single functions, PartSpec aside
mergeVars == << m_pc, m_input_paths, entry_class, final_output, final_output_twice >>
dlInputVars == << item_ids, get_max_page_expression, download_burst_count >>
dlVars == << dlInputVars, d_pc, listdir, error_log, existing_downloaded_data,
             d_i, max_page, page_number, download_count, d_run, d_completed,
             d_at_start, d_requested, d_requests, d_attempted >>
extVars == << sortVars, mergeVars, dlVars >>

\* ------------------------------------------------------------ plain helpers
Range(s) == { s[k] : k \in DOMAIN s }

Min(a, b) == IF a < b THEN a ELSE b

Max(a, b) == IF a > b THEN a ELSE b

RECURSIVE Flatten(_)
Flatten(ss) == IF ss = <<>> THEN <<>> ELSE Head(ss) \o Flatten(Tail(ss))

\* ------------------------------------------------------------ the partitioner
\* get_num_tasks without the max(.., 1)
get_num_tasks_without_floor(reserve, data) == Min(CPU_COUNT - reserve, Len(data))

\* min(max(CPU_COUNT - cores_to_reserve, 1), len(data))
get_num_tasks(reserve, data) == Min(Max(CPU_COUNT - reserve, 1), Len(data))

\* SliceRange with the end of a long range one short: x where x + 1 is meant
SliceRange_end_short(x, slice_size, remainder) ==
    << x * slice_size + (IF x < remainder THEN x ELSE remainder),
       (x + 1) * slice_size + (IF x < remainder THEN x ELSE remainder) >>

\* SliceRange with every range starting at 0
SliceRange_from_zero(x, slice_size, remainder) ==
    << 0, (x + 1) * slice_size + (IF x < remainder THEN x + 1 ELSE remainder) >>

\* one (slice_start, slice_end) of get_multiprocess_slice_ranges, x from 0
SliceRange(x, slice_size, remainder) ==
    << x * slice_size + (IF x < remainder THEN x ELSE remainder),
       (x + 1) * slice_size + (IF x < remainder THEN x + 1 ELSE remainder) >>

\* the slicer with the remainder given to the last ranges instead of the first
get_multiprocess_slice_ranges_long_last(n_tasks, data_count) ==
    LET slice_size == data_count \div n_tasks
        remainder == data_count % n_tasks
        extra(y) == Max(0, y - (n_tasks - remainder))
    IN  [ y \in 1..n_tasks |->
            << (y - 1) * slice_size + extra(y - 1), y * slice_size + extra(y) >> ]

\* the tuple of ranges; element x + 1 of the sequence is the code's element x.
\* Python 2's / on ints is the floor division. num_tasks = 0 raises
\* ZeroDivisionError: the callers below test for it before they use this.
get_multiprocess_slice_ranges(n_tasks, data_count) ==
    LET slice_size == data_count \div n_tasks
        remainder == data_count % n_tasks
    IN  [ y \in 1..n_tasks |-> SliceRange(y - 1, slice_size, remainder) ]

\* InsertBySize with p put before the elements of its own size: the sort is
\* not stable
RECURSIVE InsertBySize_before_equal(_, _, _)
InsertBySize_before_equal(p, s, size) ==
    IF s = <<>> THEN << p >>
    ELSE IF size[Head(s)] > size[p]
         THEN << Head(s) >> \o InsertBySize_before_equal(p, Tail(s), size)
         ELSE << p >> \o s

\* sorted(file_paths, cmp=lambda x, y: -cmp(size(x), size(y))): a stable sort,
\* larger files first. Insert(p, s) puts p behind every element of s that is
\* not smaller, so elements of equal size keep the order of insertion.
RECURSIVE InsertBySize(_, _, _)
InsertBySize(p, s, size) ==
    IF s = <<>> THEN << p >>
    ELSE IF size[Head(s)] >= size[p]
         THEN << Head(s) >> \o InsertBySize(p, Tail(s), size)
         ELSE << p >> \o s

RECURSIVE SortBySizeDesc(_, _)
SortBySizeDesc(s, size) ==
    IF s = <<>> THEN <<>>
    ELSE InsertBySize(s[Len(s)], SortBySizeDesc(SubSeq(s, 1, Len(s) - 1), size), size)

\* Bucket filled in the full rounds of the dealing loop only: the items of a
\* last, incomplete round are lost
Bucket_full_rounds_only(s, k, j) ==
    LET cnt == Len(s) \div k
    IN  [ m \in 1..cnt |-> s[(m - 1) * k + j + 1] ]

\* bucket j (from 0) of the dealing loop: file_paths[i + j] for i = 0, k, 2k, ..
\* as long as the index exists (the IndexError is swallowed)
Bucket(s, k, j) ==
    LET cnt == Cardinality({ q \in 0..(Len(s) - 1) : q % k = j })
    IN  [ m \in 1..cnt |-> s[(m - 1) * k + j + 1] ]

\* sort_file_paths_for_load_balancing without the dealing loop: the paths
\* sorted by size
sort_file_paths_for_load_balancing_sorted_only(paths, size, k) ==
    SortBySizeDesc(paths, size)

\* task_count = 0 makes xrange(0, len, 0) raise ValueError: the caller below
\* tests for it before it uses this
sort_file_paths_for_load_balancing(paths, size, k) ==
    LET by_size == SortBySizeDesc(paths, size)
    IN  Flatten([ b \in 1..k |-> Bucket(by_size, k, b - 1) ])

\* ------------------------------------------------------- records and files
\* the namedtuple class of the parsed records: Note(id, message)
NoteFields == << "id", "message" >>

Note(id, message) == [ id |-> id, message |-> message ]

\* csv.writer's row of a namedtuple: every field through str()
Row(entry) == << ToString(entry.id), entry.message >>

\* the 1-based position of the attribute 'id' among the fields of entry_class
IdIndex == CHOOSE k \in DOMAIN NoteFields : NoteFields[k] = "id"

\* what parser_func(path) does: it raises, or returns None, a namedtuple or a
\* list of namedtuples
Raises == [ kind |-> "raise", value |-> <<>> ]

ReturnsNone == [ kind |-> "none", value |-> <<>> ]

ReturnsRecord(entry) == [ kind |-> "record", value |-> << entry >> ]

ReturnsList(entries) == [ kind |-> "list", value |-> entries ]

\* Python's truth value of a parse result: None and the empty list are false
Truthy(r) == r.kind = "record" \/ (r.kind = "list" /\ r.value # <<>>)

\* hasattr(entry, '_fields')
HasFields(r) == r.kind = "record"

FilePath(k) == "f" \o ToString(k)

Message(k) == "m" \o ToString(k)

\* parser_func returns the record of file k
OwnRecordOf(k) == ReturnsRecord(Note(k, Message(k)))

\* the parse results file k may have in a run: a failure, None, an empty
\* list, its own record, or a list of two records of which the second one has
\* the id of file 1's record
Outcomes(k) ==
    { Raises, ReturnsNone, ReturnsList(<<>>),
      OwnRecordOf(k),
      ReturnsList(<< Note(k, Message(k)), Note(1, Message(k)) >>) }

\* a file: whether it exists and its csv rows
Absent == [ exists |-> FALSE, rows |-> <<>> ]

File(rows) == [ exists |-> TRUE, rows |-> rows ]

task_name == "notes"

\* '%s-%i.csv' % (task_name, x) and '%s-%i-errors.csv' % (task_name, x)
OutPath(x) == task_name \o "-" \o ToString(x) \o ".csv"

ErrPath(x) == task_name \o "-" \o ToString(x) \o "-errors.csv"

\* '%s.csv' % task_name and '%s-errors.csv' % task_name
FinalOutPath == task_name \o ".csv"

FinalErrPath == task_name \o "-errors.csv"

Tasks == 0..(MaxFiles - 1)

AllPaths == { OutPath(x) : x \in Tasks } \cup { ErrPath(x) : x \in Tasks }
                \cup { FinalOutPath, FinalErrPath }

ErrorHeader == << "file", "error" >>

\* traceback.format_exc() of the parser's exception
Traceback == "Traceback"

\* ------------------------------------------------------------------ the merger
\* MergeRows without ids.add(entry.id): no id is ever found in ids
RECURSIVE MergeRows_ids_never_added(_, _, _)
MergeRows_ids_never_added(rows, m, dedup) ==
    IF rows = <<>> \/ ~m.ok THEN m
    ELSE LET row == Head(rows) IN
         IF ~dedup
         THEN MergeRows_ids_never_added(Tail(rows),
                                        [ m EXCEPT !.rows = Append(@, row) ], dedup)
         ELSE IF Len(row) # Len(NoteFields)
              THEN [ m EXCEPT !.ok = FALSE ]
              ELSE IF row[IdIndex] \in m.ids
                   THEN MergeRows_ids_never_added(Tail(rows), m, dedup)
                   ELSE MergeRows_ids_never_added(Tail(rows),
                                  [ m EXCEPT !.rows = Append(@, row) ], dedup)

\* the rows of one input behind its header, written through the id filter
\* when an entry class is given; m is the merge so far
RECURSIVE MergeRows(_, _, _)
MergeRows(rows, m, dedup) ==
    IF rows = <<>> \/ ~m.ok THEN m
    ELSE LET row == Head(rows) IN
         IF ~dedup
         THEN MergeRows(Tail(rows), [ m EXCEPT !.rows = Append(@, row) ], dedup)
         ELSE IF Len(row) # Len(NoteFields)
              THEN [ m EXCEPT !.ok = FALSE ]   \* entry_class(*row): TypeError
              ELSE IF row[IdIndex] \in m.ids
                   THEN MergeRows(Tail(rows), m, dedup)
                   ELSE MergeRows(Tail(rows),
                                  [ m EXCEPT !.rows = Append(@, row),
                                             !.ids = @ \cup { row[IdIndex] } ],
                                  dedup)

\* MergeFile that never sets are_headers_written: the header row of every
\* input is written
MergeFile_header_of_every_input(file, m, headers, dedup) ==
    IF ~file.exists THEN [ m EXCEPT !.ok = FALSE ]
    ELSE IF ~headers THEN MergeRows(file.rows, m, dedup)
    ELSE IF file.rows = <<>> THEN [ m EXCEPT !.ok = FALSE ]
    ELSE MergeRows(Tail(file.rows),
                   [ m EXCEPT !.rows = Append(@, Head(file.rows)) ], dedup)

\* MergeFile that passes over an input it cannot open
MergeFile_skip_missing(file, m, headers, dedup) ==
    IF ~file.exists THEN m
    ELSE IF ~headers THEN MergeRows(file.rows, m, dedup)
    ELSE IF file.rows = <<>> THEN [ m EXCEPT !.ok = FALSE ]
    ELSE IF ~m.written
         THEN MergeRows(Tail(file.rows),
                        [ m EXCEPT !.rows = Append(@, Head(file.rows)),
                                   !.written = TRUE ],
                        dedup)
         ELSE MergeRows(Tail(file.rows), m, dedup)

\* MergeFile that takes the first row of every input for a header, also when
\* no headers are declared
MergeFile_always_header(file, m, headers, dedup) ==
    IF ~file.exists \/ file.rows = <<>> THEN [ m EXCEPT !.ok = FALSE ]
    ELSE IF ~m.written
         THEN MergeRows(Tail(file.rows),
                        [ m EXCEPT !.rows = Append(@, Head(file.rows)),
                                   !.written = TRUE ],
                        dedup)
         ELSE MergeRows(Tail(file.rows), m, dedup)

\* one input file: open() fails when it is missing, reader.next() raises
\* StopIteration when headers are declared and the file has no row
MergeFile(file, m, headers, dedup) ==
    IF ~file.exists THEN [ m EXCEPT !.ok = FALSE ]
    ELSE IF ~headers THEN MergeRows(file.rows, m, dedup)
    ELSE IF file.rows = <<>> THEN [ m EXCEPT !.ok = FALSE ]
    ELSE IF ~m.written
         THEN MergeRows(Tail(file.rows),
                        [ m EXCEPT !.rows = Append(@, Head(file.rows)),
                                   !.written = TRUE ],
                        dedup)
         ELSE MergeRows(Tail(file.rows), m, dedup)

RECURSIVE MergeFiles(_, _, _, _, _)
MergeFiles(input_paths, fsys, m, headers, dedup) ==
    IF input_paths = <<>> \/ ~m.ok THEN m
    ELSE MergeFiles(Tail(input_paths), fsys,
                    MergeFile(fsys[Head(input_paths)], m, headers, dedup),
                    headers, dedup)

\* merge_csv_files: [ok, rows], ok = FALSE when an exception ends it; rows are
\* the rows written to output_path (up to the exception)
merge_csv_files(input_paths, fsys, headers, dedup) ==
    LET m == MergeFiles(input_paths, fsys,
                        [ ok |-> TRUE, rows |-> <<>>, written |-> FALSE, ids |-> {} ],
                        headers, dedup)
    IN  [ ok |-> m.ok, rows |-> m.rows ]

\* ------------------------------------------------------------------- Init
\* the parsers of n files: file k does one of Outcomes(k)
ParserFuncs(n) ==
    LET paths == { FilePath(k) : k \in 1..n }
        all == UNION { Outcomes(k) : k \in 1..n }
    IN  { f \in [ paths -> all ] : \A k \in 1..n : f[FilePath(k)] \in Outcomes(k) }

\* the sizes of n files: file k has k bytes, so the last file is the largest
\* and the load-balanced order is not the caller's
FileSizes(n) ==
    [ p \in { FilePath(k) : k \in 1..n } |-> CHOOSE k \in 1..n : FilePath(k) = p ]

\* nothing of the pipeline has run yet
PipelineAtStart ==
    /\ pc = "partition"
    /\ task_count = 0
    /\ sorted_file_paths = <<>>
    /\ probe_i = 0
    /\ csv_headers = <<>>
    /\ cls = "None"
    /\ num_tasks = 0
    /\ slice_ranges = <<>>
    /\ started = 0
    /\ results_queue = <<>>
    /\ results = <<>>
    /\ wpc = [ x \in Tasks |-> "unstarted" ]
    /\ wi = [ x \in Tasks |-> 0 ]
    /\ calls = [ x \in Tasks |-> <<>> ]
    /\ arrival = <<>>

PartIdle ==
    /\ p_pc = "off"
    /\ p_num_tasks = 0
    /\ p_data_count = 0
    /\ p_ranges = <<>>
    /\ p_tasks = 0

SortIdle == s_pc = "off"

\* no function is applied on its own
MergeIdle ==
    /\ m_pc = "off"
    /\ m_input_paths = <<>>
    /\ entry_class = "None"
    /\ final_output = [ ok |-> TRUE, rows |-> <<>> ]
    /\ final_output_twice = [ ok |-> TRUE, rows |-> <<>> ]

DlIdle ==
    /\ item_ids = <<>>
    /\ get_max_page_expression = "None"
    /\ download_burst_count = 1
    /\ d_pc = "off"
    /\ listdir = {}
    /\ error_log = [ exists |-> FALSE, rows |-> <<>> ]
    /\ existing_downloaded_data = {}
    /\ d_i = 0
    /\ max_page = 0
    /\ page_number = 0
    /\ download_count = 0
    /\ d_run = 0
    /\ d_completed = FALSE
    /\ d_at_start = [ listdir |-> {}, error_log |-> [ exists |-> FALSE, rows |-> <<>> ] ]
    /\ d_requested = {}
    /\ d_requests = 0
    /\ d_attempted = 0

ExtIdle == SortIdle /\ MergeIdle /\ DlIdle

\* a call of do_multi_parse_to_csv on up to MaxFiles files, on a host of MaxCpu
\* cores, with an output folder that holds none of the job's files
Init ==
    /\ \E n \in 0..MaxFiles :
        /\ file_paths = [ k \in 1..n |-> FilePath(k) ]
        /\ st_size = FileSizes(n)
        /\ parser_func \in ParserFuncs(n)
    /\ CPU_COUNT = MaxCpu
    /\ cores_to_reserve \in 0..MaxCpu
    /\ include_headers \in BOOLEAN
    /\ are_ids_unique \in BOOLEAN
    /\ called = "do_multi_parse_to_csv"
    /\ fs = [ p \in AllPaths |-> Absent ]
    /\ PipelineAtStart
    /\ PartIdle
    /\ ExtIdle

\* ------------------------------------------- do_multi_parse_to_csv, main process
\* task_count and the load-balanced order
Partition ==
    /\ pc = "partition"
    /\ LET k == get_num_tasks(cores_to_reserve, file_paths) IN
        /\ task_count' = k
        /\ IF k = 0
           THEN /\ pc' = "failed"
                /\ UNCHANGED sorted_file_paths
           ELSE /\ sorted_file_paths' =
                     sort_file_paths_for_load_balancing(file_paths, st_size, k)
                /\ pc' = IF include_headers THEN "headers" ELSE "dispatch"
    /\ UNCHANGED << inputVars, probe_i, csv_headers, cls, num_tasks, slice_ranges,
                    started, results_queue, results, workerVars, fs, arrival,
                    partVars, extVars >>

\* ProbeHeader that goes on without a header when no file is left to probe
ProbeHeader_defaults_header ==
    /\ pc = "headers"
    /\ IF probe_i >= Len(sorted_file_paths)
       THEN /\ pc' = "dispatch"
            /\ UNCHANGED << probe_i, csv_headers, cls >>
       ELSE LET test_entry == parser_func[sorted_file_paths[probe_i + 1]] IN
            IF test_entry.kind = "raise"
            THEN /\ pc' = "failed"
                 /\ UNCHANGED << probe_i, csv_headers, cls >>
            ELSE /\ probe_i' = probe_i + 1
                 /\ IF Truthy(test_entry)
                    THEN /\ csv_headers' = NoteFields
                         /\ cls' = "Note"
                         /\ pc' = "dispatch"
                    ELSE UNCHANGED << pc, csv_headers, cls >>
    /\ UNCHANGED << inputVars, task_count, sorted_file_paths, num_tasks,
                    slice_ranges, started, results_queue, results, workerVars,
                    fs, arrival, partVars, extVars >>

\* one turn of "while not test_entry", with the assignments behind the loop
\* when it ends
ProbeHeader ==
    /\ pc = "headers"
    /\ IF probe_i >= Len(sorted_file_paths)
       THEN /\ pc' = "failed"
            /\ UNCHANGED << probe_i, csv_headers, cls >>
       ELSE LET test_entry == parser_func[sorted_file_paths[probe_i + 1]] IN
            IF test_entry.kind = "raise"
            THEN /\ pc' = "failed"
                 /\ UNCHANGED << probe_i, csv_headers, cls >>
            ELSE /\ probe_i' = probe_i + 1
                 /\ IF Truthy(test_entry)
                    THEN /\ csv_headers' = NoteFields
                         /\ cls' = "Note"
                         /\ pc' = "dispatch"
                    ELSE UNCHANGED << pc, csv_headers, cls >>
    /\ UNCHANGED << inputVars, task_count, sorted_file_paths, num_tasks,
                    slice_ranges, started, results_queue, results, workerVars,
                    fs, arrival, partVars, extVars >>

\* --------------------------------------------------- do_multi_process
\* the work load is cut up and the queue and the consumers are made
Dispatch ==
    /\ pc = "dispatch"
    /\ LET k == get_num_tasks(cores_to_reserve, sorted_file_paths) IN
        /\ num_tasks' = k
        /\ IF k = 0
           THEN /\ pc' = "failed"
                /\ UNCHANGED slice_ranges
           ELSE /\ slice_ranges' =
                     get_multiprocess_slice_ranges(k, Len(sorted_file_paths))
                /\ pc' = "start"
    /\ results_queue' = <<>>
    /\ started' = 0
    /\ UNCHANGED << inputVars, task_count, sorted_file_paths, probe_i,
                    csv_headers, cls, results, workerVars, fs, arrival, partVars, extVars >>

\* StartWorker over xrange(num_tasks - 1): the last consumer is never started
StartWorker_but_last ==
    /\ pc = "start"
    /\ started < num_tasks
    /\ wpc' = [ wpc EXCEPT ![started] = "begin" ]
    /\ started' = started + 1
    /\ IF started + 1 >= num_tasks - 1
       THEN pc' = "collect" /\ results' = <<>>
       ELSE UNCHANGED << pc, results >>
    /\ UNCHANGED << inputVars, task_count, sorted_file_paths, probe_i,
                    csv_headers, cls, num_tasks, slice_ranges, results_queue,
                    wi, calls, fs, arrival, partVars, extVars >>

\* worker.start() of the next consumer; behind the last one, results = list()
StartWorker ==
    /\ pc = "start"
    /\ started < num_tasks
    /\ wpc' = [ wpc EXCEPT ![started] = "begin" ]
    /\ started' = started + 1
    /\ IF started + 1 = num_tasks
       THEN pc' = "collect" /\ results' = <<>>
       ELSE UNCHANGED << pc, results >>
    /\ UNCHANGED << inputVars, task_count, sorted_file_paths, probe_i,
                    csv_headers, cls, num_tasks, slice_ranges, results_queue,
                    wi, calls, fs, arrival, partVars, extVars >>

\* where do_multi_process returns to: the pipeline goes on with the merge
ReturnTo == IF called = "do_multi_parse_to_csv" THEN "merge_out" ELSE "returned"

\* CollectResult with "if num_tasks" for "while num_tasks": it returns with the
\* first result
CollectResult_first_only ==
    /\ pc = "collect"
    /\ num_tasks > 0
    /\ results_queue # <<>>
    /\ results' = Append(results, Head(results_queue))
    /\ results_queue' = Tail(results_queue)
    /\ num_tasks' = 0
    /\ pc' = ReturnTo
    /\ UNCHANGED << inputVars, task_count, sorted_file_paths, probe_i,
                    csv_headers, cls, slice_ranges, started, workerVars, fs,
                    arrival, partVars, extVars >>

\* CollectResult that does not wait for a result: it counts the task without
\* results_queue.get()
CollectResult_without_get ==
    /\ pc = "collect"
    /\ num_tasks > 0
    /\ results' = Append(results, "None")
    /\ num_tasks' = num_tasks - 1
    /\ pc' = IF num_tasks - 1 > 0 THEN "collect" ELSE ReturnTo
    /\ UNCHANGED << inputVars, task_count, sorted_file_paths, probe_i,
                    csv_headers, cls, slice_ranges, started, results_queue,
                    workerVars, fs, arrival, partVars, extVars >>

\* one turn of "while num_tasks": results_queue.get() blocks on an empty queue
CollectResult ==
    /\ pc = "collect"
    /\ num_tasks > 0
    /\ results_queue # <<>>
    /\ results' = Append(results, Head(results_queue))
    /\ results_queue' = Tail(results_queue)
    /\ num_tasks' = num_tasks - 1
    /\ pc' = IF num_tasks - 1 > 0 THEN "collect" ELSE ReturnTo
    /\ UNCHANGED << inputVars, task_count, sorted_file_paths, probe_i,
                    csv_headers, cls, slice_ranges, started, workerVars, fs,
                    arrival, partVars, extVars >>

\* ------------------------------------------- do_multi_parse_to_csv, continued
\* MergeOutputs followed at once by the removal loop: the error logs are
\* not merged
MergeOutputs_then_remove ==
    /\ pc = "merge_out"
    /\ LET m == merge_csv_files([ y \in 1..task_count |-> OutPath(y - 1) ], fs,
                                include_headers,
                                are_ids_unique /\ cls # "None") IN
        /\ fs' = [ fs EXCEPT ![FinalOutPath] = File(m.rows) ]
        /\ pc' = IF m.ok THEN "remove" ELSE "failed"
    /\ UNCHANGED << inputVars, task_count, sorted_file_paths, probe_i,
                    csv_headers, cls, num_tasks, slice_ranges, started,
                    results_queue, results, workerVars, arrival, partVars, extVars >>

\* MergeOutputs over the results of do_multi_process, in the order the
\* workers put them
MergeOutputs_in_arrival_order ==
    /\ pc = "merge_out"
    /\ LET m == merge_csv_files(results, fs, include_headers,
                                are_ids_unique /\ cls # "None") IN
        /\ fs' = [ fs EXCEPT ![FinalOutPath] = File(m.rows) ]
        /\ pc' = IF m.ok THEN "merge_err" ELSE "failed"
    /\ UNCHANGED << inputVars, task_count, sorted_file_paths, probe_i,
                    csv_headers, cls, num_tasks, slice_ranges, started,
                    results_queue, results, workerVars, arrival, partVars, extVars >>

\* stitch output files together
MergeOutputs ==
    /\ pc = "merge_out"
    /\ LET m == merge_csv_files([ y \in 1..task_count |-> OutPath(y - 1) ], fs,
                                include_headers,
                                are_ids_unique /\ cls # "None") IN
        /\ fs' = [ fs EXCEPT ![FinalOutPath] = File(m.rows) ]
        /\ pc' = IF m.ok THEN "merge_err" ELSE "failed"
    /\ UNCHANGED << inputVars, task_count, sorted_file_paths, probe_i,
                    csv_headers, cls, num_tasks, slice_ranges, started,
                    results_queue, results, workerVars, arrival, partVars, extVars >>

\* stitch error logs together
MergeErrors ==
    /\ pc = "merge_err"
    /\ LET m == merge_csv_files([ y \in 1..task_count |-> ErrPath(y - 1) ], fs,
                                TRUE, FALSE) IN
        /\ fs' = [ fs EXCEPT ![FinalErrPath] = File(m.rows) ]
        /\ pc' = IF m.ok THEN "remove" ELSE "failed"
    /\ UNCHANGED << inputVars, task_count, sorted_file_paths, probe_i,
                    csv_headers, cls, num_tasks, slice_ranges, started,
                    results_queue, results, workerVars, arrival, partVars, extVars >>

\* IntermediatePaths without the error logs: only path_to_csv is removed
IntermediatePaths_outputs_only(k) == [ y \in 1..k |-> OutPath(y - 1) ]

\* the paths the removal loop removes, in its order
IntermediatePaths(k) ==
    Flatten([ y \in 1..k |-> << OutPath(y - 1), ErrPath(y - 1) >> ])

\* remove intermediate files: os.remove raises OSError on a missing file, with
\* the files before it removed
RemoveIntermediates ==
    /\ pc = "remove"
    /\ LET paths == IntermediatePaths(task_count)
           missing == { q \in DOMAIN paths : ~fs[paths[q]].exists }
           stop == IF missing = {} THEN Len(paths) + 1
                   ELSE CHOOSE q \in missing : \A r \in missing : q <= r
           removed == { paths[q] : q \in 1..(stop - 1) }
       IN  /\ fs' = [ p \in DOMAIN fs |-> IF p \in removed THEN Absent ELSE fs[p] ]
           /\ pc' = IF missing = {} THEN "done" ELSE "failed"
    /\ UNCHANGED << inputVars, task_count, sorted_file_paths, probe_i,
                    csv_headers, cls, num_tasks, slice_ranges, started,
                    results_queue, results, workerVars, arrival, partVars, extVars >>

\* ------------------------------------------- _dump_into_csv_task, worker x
slice_start(x) == slice_ranges[x + 1][1]

slice_end(x) == slice_ranges[x + 1][2]

\* create csv and error log if they don't exist
WorkerCreateFiles(x) ==
    /\ wpc[x] = "begin"
    /\ fs' = [ p \in DOMAIN fs |->
                IF p = OutPath(x) /\ ~fs[p].exists
                THEN File(IF csv_headers # <<>> THEN << csv_headers >> ELSE <<>>)
                ELSE IF p = ErrPath(x) /\ ~fs[p].exists
                     THEN File(<< ErrorHeader >>)
                     ELSE fs[p] ]
    /\ wi' = [ wi EXCEPT ![x] = slice_start(x) ]
    /\ wpc' = [ wpc EXCEPT ![x] = "loop" ]
    /\ UNCHANGED << inputVars, pc, task_count, sorted_file_paths, probe_i,
                    csv_headers, cls, num_tasks, slice_ranges, started,
                    results_queue, results, calls, arrival, partVars, extVars >>

\* the rows writerow(entry) or writerows(entry) appends
RowsOf(entry) == [ q \in DOMAIN entry.value |-> Row(entry.value[q]) ]

\* AppendEntry with the error row written to the worker's output file
AppendEntry_error_to_output(fsys, x, file_path, entry) ==
    IF entry.kind = "raise"
    THEN [ fsys EXCEPT ![OutPath(x)] =
               File(fsys[OutPath(x)].rows \o << << file_path, Traceback >> >>) ]
    ELSE IF entry.kind = "none"
         THEN [ fsys EXCEPT ![OutPath(x)] = File(fsys[OutPath(x)].rows) ]
         ELSE [ fsys EXCEPT ![OutPath(x)] =
                    File(fsys[OutPath(x)].rows \o RowsOf(entry)) ]

\* AppendEntry with the task index left out of the file names: every worker
\* appends to the files of worker 0
AppendEntry_to_first_worker(fsys, x, file_path, entry) ==
    IF entry.kind = "raise"
    THEN [ fsys EXCEPT ![ErrPath(0)] =
               File(fsys[ErrPath(0)].rows \o << << file_path, Traceback >> >>) ]
    ELSE IF entry.kind = "none"
         THEN [ fsys EXCEPT ![OutPath(0)] = File(fsys[OutPath(0)].rows) ]
         ELSE [ fsys EXCEPT ![OutPath(0)] =
                    File(fsys[OutPath(0)].rows \o RowsOf(entry)) ]

\* what one turn of the loop appends to the worker's two files
AppendEntry(fsys, x, file_path, entry) ==
    IF entry.kind = "raise"
    THEN [ fsys EXCEPT ![ErrPath(x)] =
               File(fsys[ErrPath(x)].rows \o << << file_path, Traceback >> >>) ]
    ELSE IF entry.kind = "none"
         THEN [ fsys EXCEPT ![OutPath(x)] = File(fsys[OutPath(x)].rows) ]
         ELSE [ fsys EXCEPT ![OutPath(x)] =
                    File(fsys[OutPath(x)].rows \o RowsOf(entry)) ]

\* one turn of "for i in xrange(slice_start, slice_end)". writerows(None)
\* raises TypeError outside the try: the worker process dies
WorkerParseItem(x) ==
    /\ wpc[x] = "loop"
    /\ wi[x] < slice_end(x)
    /\ LET file_path == sorted_file_paths[wi[x] + 1]
           entry == parser_func[file_path]
       IN  /\ calls' = [ calls EXCEPT ![x] = Append(@, file_path) ]
           /\ fs' = AppendEntry(fs, x, file_path, entry)
           /\ IF entry.kind = "none"
              THEN wpc' = [ wpc EXCEPT ![x] = "crashed" ] /\ UNCHANGED wi
              ELSE wi' = [ wi EXCEPT ![x] = @ + 1 ] /\ UNCHANGED wpc
    /\ UNCHANGED << inputVars, pc, task_count, sorted_file_paths, probe_i,
                    csv_headers, cls, num_tasks, slice_ranges, started,
                    results_queue, results, arrival, partVars, extVars >>

\* WorkerPut moved in front of the loop: the result is put before any item
\* is parsed
WorkerPut_before_loop(x) ==
    /\ wpc[x] = "loop"
    /\ wi[x] = slice_start(x)
    /\ OutPath(x) \notin Range(arrival)
    /\ results_queue' = Append(results_queue, OutPath(x))
    /\ arrival' = Append(arrival, OutPath(x))
    /\ UNCHANGED << inputVars, pc, task_count, sorted_file_paths, probe_i,
                    csv_headers, cls, num_tasks, slice_ranges, started,
                    results, workerVars, fs, partVars, extVars >>

\* rejoin the main thread: result_queue.put(path_to_csv)
WorkerPut(x) ==
    /\ wpc[x] = "loop"
    /\ wi[x] = slice_end(x)
    /\ results_queue' = Append(results_queue, OutPath(x))
    /\ arrival' = Append(arrival, OutPath(x))
    /\ wpc' = [ wpc EXCEPT ![x] = "exiting" ]
    /\ UNCHANGED << inputVars, pc, task_count, sorted_file_paths, probe_i,
                    csv_headers, cls, num_tasks, slice_ranges, started,
                    results, wi, calls, fs, partVars, extVars >>

\* the task function has returned: the worker process ends
WorkerExit(x) ==
    /\ wpc[x] = "exiting"
    /\ wpc' = [ wpc EXCEPT ![x] = "exited" ]
    /\ UNCHANGED << inputVars, pc, task_count, sorted_file_paths, probe_i,
                    csv_headers, cls, num_tasks, slice_ranges, started,
                    results_queue, results, wi, calls, fs, arrival, partVars, extVars >>

\* ------------------------------------------------------------ specifications
MainNext ==
    \/ Partition
    \/ ProbeHeader
    \/ Dispatch
    \/ StartWorker
    \/ CollectResult
    \/ MergeOutputs
    \/ MergeErrors
    \/ RemoveIntermediates

WorkerNext(x) ==
    \/ WorkerCreateFiles(x)
    \/ WorkerParseItem(x)
    \/ WorkerPut(x)
    \/ WorkerExit(x)

Next ==
    \/ MainNext
    \/ \E x \in Tasks : WorkerNext(x)

Spec == Init /\ [][Next]_vars

\* the operating system schedules the main process and every started worker
\* process again and again
FairSpec ==
    /\ Spec
    /\ WF_vars(MainNext)
    /\ \A x \in Tasks : WF_vars(WorkerNext(x))

\* -------------------------------------------------------------- DispatchSpec
\* what the parser does on item k of a direct call: it returns the record,
\* raises, or returns None (which is fatal to the worker)
DispatchParsers(n) ==
    { f \in [ { FilePath(k) : k \in 1..n } -> { OwnRecordOf(k) : k \in 1..n }
                                                  \cup { Raises, ReturnsNone } ] :
        \A k \in 1..n : f[FilePath(k)] \in { OwnRecordOf(k), Raises, ReturnsNone } }

\* do_multi_process(data, task, cores_to_reserve) called on its own, as
\* TestDoMultiProcess does, on up to MaxFiles items and with the CSV-dump task
\* without headers for a task
DispatchInit ==
    /\ \E n \in 0..MaxFiles :
        /\ sorted_file_paths = [ k \in 1..n |-> FilePath(k) ]
        /\ st_size = FileSizes(n)
        /\ parser_func \in DispatchParsers(n)
    /\ file_paths = <<>>
    /\ CPU_COUNT = MaxCpu
    /\ cores_to_reserve \in 0..MaxCpu
    /\ include_headers = FALSE
    /\ are_ids_unique = FALSE
    /\ called = "do_multi_process"
    /\ fs = [ p \in AllPaths |-> Absent ]
    /\ pc = "dispatch"
    /\ task_count = 0
    /\ probe_i = 0
    /\ csv_headers = <<>>
    /\ cls = "None"
    /\ num_tasks = 0
    /\ slice_ranges = <<>>
    /\ started = 0
    /\ results_queue = <<>>
    /\ results = <<>>
    /\ wpc = [ x \in Tasks |-> "unstarted" ]
    /\ wi = [ x \in Tasks |-> 0 ]
    /\ calls = [ x \in Tasks |-> <<>> ]
    /\ arrival = <<>>
    /\ PartIdle
    /\ ExtIdle

DispatchMainNext ==
    \/ Dispatch
    \/ StartWorker
    \/ CollectResult

DispatchNext ==
    \/ DispatchMainNext
    \/ \E x \in Tasks : WorkerNext(x)

\* the operating system schedules the main process and every started worker
\* process again and again
DispatchSpec ==
    /\ DispatchInit
    /\ [][DispatchNext]_vars
    /\ WF_vars(DispatchMainNext)
    /\ \A x \in Tasks : WF_vars(WorkerNext(x))

\* ----------------------------------------------------------------- StaleSpec
\* a data row and an error row that a worker of an earlier job appended
StaleRow == Row(Note(9, "stale"))

StaleErrorRow == << "f9", Traceback >>

\* the output folder behind an earlier job of the same task name that was
\* stopped with k workers started: each had created its two files and
\* appended a row
StaleFolder(k) ==
    [ p \in AllPaths |->
        IF \E x \in 0..(k - 1) : p = OutPath(x)
        THEN File((IF include_headers THEN << NoteFields >> ELSE <<>>)
                      \o << StaleRow >>)
        ELSE IF \E x \in 0..(k - 1) : p = ErrPath(x)
             THEN File(<< ErrorHeader, StaleErrorRow >>)
             ELSE Absent ]

\* a call of do_multi_parse_to_csv with an output folder that holds what an
\* earlier unfinished job left behind
StaleInit ==
    /\ \E n \in 0..MaxFiles :
        /\ file_paths = [ k \in 1..n |-> FilePath(k) ]
        /\ st_size = FileSizes(n)
        /\ parser_func \in DispatchParsers(n)
    /\ CPU_COUNT = MaxCpu
    /\ cores_to_reserve \in 0..MaxCpu
    /\ include_headers \in BOOLEAN
    /\ are_ids_unique \in BOOLEAN
    /\ called = "do_multi_parse_to_csv"
    /\ \E k \in 0..MaxFiles : fs = StaleFolder(k)
    /\ PipelineAtStart
    /\ PartIdle
    /\ ExtIdle

StaleSpec == StaleInit /\ [][Next]_vars

\* ------------------------------------------------------------------ SortSpec
\* a call of sort_file_paths_for_load_balancing(file_paths, task_count) is
\* about to be made: a collection of up to MaxSortLen paths among MaxSortFiles
\* files (a path may occur more than once), every file of 1..MaxSize bytes
SortInit ==
    /\ \E n \in 0..MaxSortLen :
         file_paths \in [ 1..n -> { FilePath(k) : k \in 1..MaxSortFiles } ]
    /\ st_size \in [ { FilePath(k) : k \in 1..MaxSortFiles } -> 1..MaxSize ]
    /\ task_count \in 1..MaxSortTasks
    /\ s_pc = "sort"
    /\ parser_func = << >>
    /\ CPU_COUNT = 1
    /\ cores_to_reserve = 0
    /\ include_headers = FALSE
    /\ are_ids_unique = FALSE
    /\ called = "sort_file_paths_for_load_balancing"
    /\ fs = [ p \in AllPaths |-> Absent ]
    /\ pc = "off"
    /\ sorted_file_paths = <<>>
    /\ probe_i = 0
    /\ csv_headers = <<>>
    /\ cls = "None"
    /\ num_tasks = 0
    /\ slice_ranges = <<>>
    /\ started = 0
    /\ results_queue = <<>>
    /\ results = <<>>
    /\ wpc = [ x \in Tasks |-> "unstarted" ]
    /\ wi = [ x \in Tasks |-> 0 ]
    /\ calls = [ x \in Tasks |-> <<>> ]
    /\ arrival = <<>>
    /\ PartIdle
    /\ MergeIdle
    /\ DlIdle

ApplySort ==
    /\ s_pc = "sort"
    /\ sorted_file_paths' =
         sort_file_paths_for_load_balancing(file_paths, st_size, task_count)
    /\ s_pc' = "sorted"
    /\ UNCHANGED << inputVars, pc, task_count, probe_i, csv_headers, cls,
                    num_tasks, slice_ranges, started, results_queue, results,
                    workerVars, fs, arrival, partVars, mergeVars, dlVars >>

\* the reordered paths are cut up as do_multi_process cuts them, by the same
\* number of tasks
ApplySliceSorted ==
    /\ s_pc = "sorted"
    /\ slice_ranges' =
         get_multiprocess_slice_ranges(task_count, Len(sorted_file_paths))
    /\ s_pc' = "sliced"
    /\ UNCHANGED << inputVars, pc, task_count, sorted_file_paths, probe_i,
                    csv_headers, cls, num_tasks, started, results_queue,
                    results, workerVars, fs, arrival, partVars, mergeVars,
                    dlVars >>

SortNext ==
    \/ ApplySort
    \/ ApplySliceSorted

SortSpec == SortInit /\ [][SortNext]_vars

\* ----------------------------------------------------------------- MergeSpec
\* the two input files of the merges of MergeSpec
MergePaths == { OutPath(0), OutPath(1) }

\* the rows an input file may hold: the header of the Note class and three
\* records, two of them with the same id
MergeRowValues ==
    { NoteFields, << "1", "m1" >>, << "1", "m2" >>, << "2", "m2" >> }

\* an input file is missing (or unreadable), or holds up to MaxRows rows, of
\* which only the first may be the header
MergeFileContents ==
    { Absent } \cup
    { File(rows) : rows \in
        { r \in UNION { [ 1..n -> MergeRowValues ] : n \in 0..MaxRows } :
            \A q \in DOMAIN r : q > 1 => r[q] # NoteFields } }

\* a call of merge_csv_files(input_paths, output_path, delimiter,
\* include_headers, entry_class) is about to be made, on a list of up to
\* MaxMergeInputs inputs (an input may be listed more than once)
MergeInit ==
    /\ \E n \in 0..MaxMergeInputs : m_input_paths \in [ 1..n -> MergePaths ]
    /\ \E contents \in [ MergePaths -> MergeFileContents ] :
         fs = [ p \in AllPaths |-> IF p \in MergePaths THEN contents[p] ELSE Absent ]
    /\ include_headers \in BOOLEAN
    /\ entry_class \in { "Note", "None" }
    /\ m_pc = "merge"
    /\ final_output = [ ok |-> TRUE, rows |-> <<>> ]
    /\ final_output_twice = [ ok |-> TRUE, rows |-> <<>> ]
    /\ file_paths = <<>>
    /\ st_size = << >>
    /\ parser_func = << >>
    /\ CPU_COUNT = 1
    /\ cores_to_reserve = 0
    /\ are_ids_unique = FALSE
    /\ called = "merge_csv_files"
    /\ pc = "off"
    /\ task_count = 0
    /\ sorted_file_paths = <<>>
    /\ probe_i = 0
    /\ csv_headers = <<>>
    /\ cls = "None"
    /\ num_tasks = 0
    /\ slice_ranges = <<>>
    /\ started = 0
    /\ results_queue = <<>>
    /\ results = <<>>
    /\ wpc = [ x \in Tasks |-> "unstarted" ]
    /\ wi = [ x \in Tasks |-> 0 ]
    /\ calls = [ x \in Tasks |-> <<>> ]
    /\ arrival = <<>>
    /\ PartIdle
    /\ SortIdle
    /\ DlIdle

\* merge_csv_files(input_paths, ..): output_path is opened with 'w+' and
\* holds the rows written, up to the exception when there is one
ApplyMerge ==
    /\ m_pc = "merge"
    /\ LET m == merge_csv_files(m_input_paths, fs, include_headers,
                                entry_class # "None") IN
        /\ final_output' = m
        /\ fs' = [ fs EXCEPT ![FinalOutPath] = File(m.rows) ]
    /\ m_pc' = "merged"
    /\ UNCHANGED << inputVars, pc, task_count, sorted_file_paths, probe_i,
                    csv_headers, cls, num_tasks, slice_ranges, started,
                    results_queue, results, workerVars, arrival, partVars,
                    sortVars, dlVars, m_input_paths, entry_class,
                    final_output_twice >>

\* merge_csv_files(input_paths + input_paths, ..) to the same output_path
ApplyMergeRepeated ==
    /\ m_pc = "merged"
    /\ LET m == merge_csv_files(m_input_paths \o m_input_paths,
                                [ fs EXCEPT ![FinalOutPath] = File(<<>>) ],
                                include_headers, entry_class # "None") IN
        /\ final_output_twice' = m
        /\ fs' = [ fs EXCEPT ![FinalOutPath] = File(m.rows) ]
    /\ m_pc' = "merged_twice"
    /\ UNCHANGED << inputVars, pc, task_count, sorted_file_paths, probe_i,
                    csv_headers, cls, num_tasks, slice_ranges, started,
                    results_queue, results, workerVars, arrival, partVars,
                    sortVars, dlVars, m_input_paths, entry_class, final_output >>

MergeNext ==
    \/ ApplyMerge
    \/ ApplyMergeRepeated

MergeSpec == MergeInit /\ [][MergeNext]_vars

\* ------------------------------------------------------------------ PartSpec
\* the pipeline is not run in PartSpec
PipelineIdle ==
    /\ file_paths = <<>>
    /\ st_size = << >>
    /\ parser_func = << >>
    /\ include_headers = FALSE
    /\ are_ids_unique = FALSE
    /\ called = "none"
    /\ fs = [ p \in AllPaths |-> Absent ]
    /\ pc = "off"
    /\ task_count = 0
    /\ sorted_file_paths = <<>>
    /\ probe_i = 0
    /\ csv_headers = <<>>
    /\ cls = "None"
    /\ num_tasks = 0
    /\ slice_ranges = <<>>
    /\ started = 0
    /\ results_queue = <<>>
    /\ results = <<>>
    /\ wpc = [ x \in Tasks |-> "unstarted" ]
    /\ wi = [ x \in Tasks |-> 0 ]
    /\ calls = [ x \in Tasks |-> <<>> ]
    /\ arrival = <<>>

\* one call of get_num_tasks (p_pc = "count") or of
\* get_multiprocess_slice_ranges (p_pc = "slice") is about to be made
PartInit ==
    /\ PipelineIdle
    /\ ExtIdle
    /\ p_ranges = <<>>
    /\ p_tasks = 0
    /\ p_data_count \in 1..MaxData
    /\ \/ /\ p_pc = "count"
          /\ CPU_COUNT \in 1..MaxCores
          /\ cores_to_reserve \in 0..MaxReserve
          /\ p_num_tasks = 0
       \/ /\ p_pc = "slice"
          /\ CPU_COUNT = 1
          /\ cores_to_reserve = 0
          /\ p_num_tasks \in 1..MaxData

\* a collection of p_data_count items
PartData == [ k \in 1..p_data_count |-> k ]

ApplyGetNumTasks ==
    /\ p_pc = "count"
    /\ p_tasks' = get_num_tasks(cores_to_reserve, PartData)
    /\ p_pc' = "counted"
    /\ UNCHANGED << inputVars, pc, task_count, sorted_file_paths, probe_i,
                    csv_headers, cls, num_tasks, slice_ranges, started,
                    results_queue, results, workerVars, fs, arrival,
                    p_num_tasks, p_data_count, p_ranges, extVars >>

ApplyGetSliceRanges ==
    /\ p_pc = "slice"
    /\ p_ranges' = get_multiprocess_slice_ranges(p_num_tasks, p_data_count)
    /\ p_pc' = "sliced"
    /\ UNCHANGED << inputVars, pc, task_count, sorted_file_paths, probe_i,
                    csv_headers, cls, num_tasks, slice_ranges, started,
                    results_queue, results, workerVars, fs, arrival,
                    p_num_tasks, p_data_count, p_tasks, extVars >>

PartNext ==
    \/ ApplyGetNumTasks
    \/ ApplyGetSliceRanges

PartSpec == PartInit /\ [][PartNext]_vars

\* --------------------------------------------------------------- DownloadSpec
\* everything of src/multi.py
multiVars == << inputVars, pc, task_count, sorted_file_paths, probe_i,
                csv_headers, cls, num_tasks, slice_ranges, started,
                results_queue, results, workerVars, fs, arrival, partVars,
                sortVars, mergeVars >>

\* the extension of the downloaded data: 'xml' in single-page mode, 'html'
\* for multi-page documents
file_extension == IF get_max_page_expression = "None" THEN "xml" ELSE "html"

\* '%s.%s' % (item_id, file_extension): a file name, as os.path.splitext
\* splits it
DownloadedFile(item_id) == [ stem |-> ToString(item_id), ext |-> file_extension ]

\* '%04i' % page_number
PageDigits(n) ==
    IF n < 10 THEN "000" \o ToString(n)
    ELSE IF n < 100 THEN "00" \o ToString(n)
    ELSE IF n < 1000 THEN "0" \o ToString(n) ELSE ToString(n)

\* '%s-%04i.html' % (item_id, page_number)
PageFile(item_id, n) ==
    [ stem |-> ToString(item_id) \o "-" \o PageDigits(n), ext |-> "html" ]

\* the set of os.path.splitext(file_name)[0] of the files whose name ends in
\* the extension, and of the ids of the error log
ExistingDownloadedData(files, error_items) ==
    { f.stem : f \in { g \in files : g.ext = file_extension } } \cup error_items

\* the collections of n item ids: the ids 1..n, or the ids 1..n-1 with id 1
\* given a second time at the end
ItemIdLists(n) ==
    { [ k \in 1..n |-> k ], [ k \in 1..n |-> IF k = n THEN 1 ELSE k ] }

\* the first call of mass_download on an output directory without files, for
\* up to MaxItems item ids
DlInit ==
    /\ \E n \in 0..MaxItems : item_ids \in ItemIdLists(n)
    /\ get_max_page_expression \in { "None", "lambda" }
    /\ download_burst_count \in 1..MaxBurst
    /\ d_pc = "start"
    /\ listdir = {}
    /\ error_log = [ exists |-> FALSE, rows |-> <<>> ]
    /\ existing_downloaded_data = {}
    /\ d_i = 0
    /\ max_page = 0
    /\ page_number = 0
    /\ download_count = 0
    /\ d_run = 1
    /\ d_completed = FALSE
    /\ d_at_start = [ listdir |-> {}, error_log |-> [ exists |-> FALSE, rows |-> <<>> ] ]
    /\ d_requested = {}
    /\ d_requests = 0
    /\ d_attempted = 0
    /\ PipelineIdle
    /\ CPU_COUNT = 1
    /\ cores_to_reserve = 0
    /\ PartIdle
    /\ SortIdle
    /\ MergeIdle

\* the error file is created or read, and the already downloaded item ids
\* are listed
DlStart ==
    /\ d_pc = "start"
    /\ LET error_items == IF error_log.exists THEN Range(error_log.rows) ELSE {} IN
        /\ error_log' = IF error_log.exists THEN error_log
                         ELSE [ exists |-> TRUE, rows |-> <<>> ]
        /\ existing_downloaded_data' = ExistingDownloadedData(listdir, error_items)
    /\ download_count' = 0
    /\ d_i' = 0
    /\ d_pc' = "loop"
    /\ UNCHANGED << multiVars, dlInputVars, listdir, max_page, page_number,
                    d_run, d_completed, d_at_start, d_requested, d_requests,
                    d_attempted >>

\* the item of the turn of "for item_id in item_ids"
ItemId == item_ids[d_i + 1]

\* skip already downloaded data
DlSkip ==
    /\ d_pc = "loop"
    /\ d_i < Len(item_ids)
    /\ ToString(ItemId) \in existing_downloaded_data
    /\ d_i' = d_i + 1
    /\ UNCHANGED << multiVars, dlInputVars, d_pc, listdir, error_log,
                    existing_downloaded_data, max_page, page_number,
                    download_count, d_run, d_completed, d_at_start,
                    d_requested, d_requests, d_attempted >>

\* single-page mode: urllib2.urlopen(url).read() and the data saved to a
\* file, or an exception of the request
DlDownload ==
    /\ d_pc = "loop"
    /\ d_i < Len(item_ids)
    /\ ToString(ItemId) \notin existing_downloaded_data
    /\ get_max_page_expression = "None"
    /\ d_requested' = d_requested \cup { ItemId }
    /\ d_requests' = d_requests + 1
    /\ d_attempted' = d_attempted + 1
    /\ \E ok \in BOOLEAN :
         IF ok
         THEN /\ listdir' = listdir \cup { DownloadedFile(ItemId) }
              /\ d_pc' = "count"
         ELSE /\ d_pc' = "log_error"
              /\ UNCHANGED listdir
    /\ UNCHANGED << multiVars, dlInputVars, error_log, existing_downloaded_data,
                    d_i, max_page, page_number, download_count, d_run,
                    d_completed, d_at_start >>

\* multi-page mode: the first urllib2.urlopen(url).read(), line 109
DlFetchFirst ==
    /\ d_pc = "loop"
    /\ d_i < Len(item_ids)
    /\ ToString(ItemId) \notin existing_downloaded_data
    /\ get_max_page_expression # "None"
    /\ d_requested' = d_requested \cup { ItemId }
    /\ d_requests' = d_requests + 1
    /\ d_attempted' = d_attempted + 1
    /\ \E ok \in BOOLEAN : d_pc' = IF ok THEN "soup" ELSE "log_error"
    /\ UNCHANGED << multiVars, dlInputVars, listdir, error_log,
                    existing_downloaded_data, d_i, max_page, page_number,
                    download_count, d_run, d_completed, d_at_start >>

\* multi-page mode: the url is read again for the soup, line 121, and
\* get_max_page_expression(soup) gives the page count, or one of them raises
DlFetchSoup ==
    /\ d_pc = "soup"
    /\ d_requests' = d_requests + 1
    /\ \/ /\ d_pc' = "log_error"
          /\ UNCHANGED << max_page, page_number >>
       \/ \E n \in 0..MaxPages :
            /\ max_page' = n
            /\ page_number' = 1
            /\ d_pc' = "pages"
    /\ UNCHANGED << multiVars, dlInputVars, listdir, error_log,
                    existing_downloaded_data, d_i, download_count, d_run,
                    d_completed, d_at_start, d_requested, d_attempted >>

\* one turn of "for page_number in xrange(1, max_page + 1)": a page that is
\* on disk is passed over, another one is requested and saved
DlPage ==
    /\ d_pc = "pages"
    /\ IF page_number > max_page
       THEN /\ d_pc' = "count"
            /\ UNCHANGED << listdir, page_number, d_requests >>
       ELSE IF PageFile(ItemId, page_number) \in listdir
            THEN /\ page_number' = page_number + 1
                 /\ UNCHANGED << d_pc, listdir, d_requests >>
            ELSE /\ d_requests' = d_requests + 1
                 /\ \E ok \in BOOLEAN :
                      IF ok
                      THEN /\ listdir' = listdir \cup { PageFile(ItemId, page_number) }
                           /\ page_number' = page_number + 1
                           /\ UNCHANGED d_pc
                      ELSE /\ d_pc' = "log_error"
                           /\ UNCHANGED << listdir, page_number >>
    /\ UNCHANGED << multiVars, dlInputVars, error_log, existing_downloaded_data,
                    d_i, max_page, download_count, d_run, d_completed,
                    d_at_start, d_requested, d_attempted >>

\* except Exception: the row [item_id, tb] is appended to the error log
DlLogError ==
    /\ d_pc = "log_error"
    /\ error_log' = [ error_log EXCEPT !.rows = Append(@, ToString(ItemId)) ]
    /\ d_pc' = "count"
    /\ UNCHANGED << multiVars, dlInputVars, listdir, existing_downloaded_data,
                    d_i, max_page, page_number, download_count, d_run,
                    d_completed, d_at_start, d_requested, d_requests,
                    d_attempted >>

\* DlCount with the burst tested before download_count is incremented
DlCount_test_before_increment ==
    /\ d_pc = "count"
    /\ download_count' = download_count + 1
    /\ IF download_count % download_burst_count = 0
       THEN d_pc' = "sleep" /\ UNCHANGED d_i
       ELSE d_pc' = "loop" /\ d_i' = d_i + 1
    /\ UNCHANGED << multiVars, dlInputVars, listdir, error_log,
                    existing_downloaded_data, max_page, page_number, d_run,
                    d_completed, d_at_start, d_requested, d_requests,
                    d_attempted >>

\* wait between bursts: download_count += 1 and the test of the burst
DlCount ==
    /\ d_pc = "count"
    /\ download_count' = download_count + 1
    /\ IF (download_count + 1) % download_burst_count = 0
       THEN d_pc' = "sleep" /\ UNCHANGED d_i
       ELSE d_pc' = "loop" /\ d_i' = d_i + 1
    /\ UNCHANGED << multiVars, dlInputVars, listdir, error_log,
                    existing_downloaded_data, max_page, page_number, d_run,
                    d_completed, d_at_start, d_requested, d_requests,
                    d_attempted >>

\* time.sleep(sleep_time) has returned
DlSleep ==
    /\ d_pc = "sleep"
    /\ d_pc' = "loop"
    /\ d_i' = d_i + 1
    /\ d_requests' = 0
    /\ d_attempted' = 0
    /\ UNCHANGED << multiVars, dlInputVars, listdir, error_log,
                    existing_downloaded_data, max_page, page_number,
                    download_count, d_run, d_completed, d_at_start, d_requested >>

\* the loop over item_ids has ended: mass_download returns
DlReturn ==
    /\ d_pc = "loop"
    /\ d_i = Len(item_ids)
    /\ d_pc' = "returned"
    /\ UNCHANGED << multiVars, dlInputVars, listdir, error_log,
                    existing_downloaded_data, d_i, max_page, page_number,
                    download_count, d_run, d_completed, d_at_start,
                    d_requested, d_requests, d_attempted >>

\* the process is terminated, wherever it is
DlTerminate ==
    /\ d_pc \in { "start", "loop", "soup", "pages", "log_error", "count", "sleep" }
    /\ d_pc' = "killed"
    /\ UNCHANGED << multiVars, dlInputVars, listdir, error_log,
                    existing_downloaded_data, d_i, max_page, page_number,
                    download_count, d_run, d_completed, d_at_start,
                    d_requested, d_requests, d_attempted >>

\* mass_download is called again with the same arguments
DlResume ==
    /\ d_pc \in { "killed", "returned" }
    /\ d_run < MaxRuns
    /\ d_run' = d_run + 1
    /\ d_completed' = (d_completed \/ d_pc = "returned")
    /\ d_at_start' = [ listdir |-> listdir, error_log |-> error_log ]
    /\ d_requested' = {}
    /\ d_requests' = 0
    /\ d_attempted' = 0
    /\ d_pc' = "start"
    /\ UNCHANGED << multiVars, dlInputVars, listdir, error_log,
                    existing_downloaded_data, d_i, max_page, page_number,
                    download_count >>

DlNext ==
    \/ DlStart
    \/ DlSkip
    \/ DlDownload
    \/ DlFetchFirst
    \/ DlFetchSoup
    \/ DlPage
    \/ DlLogError
    \/ DlCount
    \/ DlSleep
    \/ DlReturn
    \/ DlTerminate
    \/ DlResume

DownloadSpec == DlInit /\ [][DlNext]_vars

\* ------------------------------------------------------------------- claims
\* the task indexes of the job
JobTasks == 0..(task_count - 1)

\* do_multi_process has returned: its countdown has reached 0
Returned == started > 0 /\ num_tasks = 0

Occurrences(s, e) == Cardinality({ q \in DOMAIN s : s[q] = e })

\* how many times the workers 0..x have given path p to the parser
RECURSIVE TimesParsed(_, _)
TimesParsed(p, x) ==
    IF x < 0 THEN 0 ELSE Occurrences(calls[x], p) + TimesParsed(p, x - 1)

\* the data rows of the final output
FinalDataRows ==
    IF include_headers /\ fs[FinalOutPath].rows # <<>>
    THEN Tail(fs[FinalOutPath].rows)
    ELSE fs[FinalOutPath].rows

\* the job has stopped short of its end: nothing can happen any more
Stuck == pc # "done" /\ ~ENABLED Next

\* C1: with headers requested and exactly one file failing to parse, wherever
\* it lands in the load-balanced order, the pipeline completes, no worker
\* crashes, the final output holds the records of the other files and the
\* merged error file holds one error row, naming the failing file
C1_OneFailureIsolated ==
    \A p \in Range(file_paths) :
        ( /\ include_headers
          /\ parser_func[p] = Raises
          /\ \A k \in DOMAIN file_paths :
                FilePath(k) # p => parser_func[FilePath(k)] = OwnRecordOf(k) )
        => /\ pc # "failed"
           /\ \A x \in Tasks : wpc[x] # "crashed"
           /\ ~Stuck
           /\ pc = "done" =>
                 /\ fs[FinalOutPath].rows[1] = NoteFields
                 /\ Len(FinalDataRows) = Len(file_paths) - 1
                 /\ Range(FinalDataRows) =
                       { Row(Note(k, Message(k))) :
                           k \in { j \in DOMAIN file_paths : FilePath(j) # p } }
                 /\ fs[FinalErrPath].rows = << ErrorHeader, << p, Traceback >> >>

\* every file parses to its own record
AllParse ==
    /\ file_paths # <<>>
    /\ \A k \in DOMAIN file_paths : parser_func[FilePath(k)] = OwnRecordOf(k)

\* C2: when every input file parses to one record with a distinct id, the
\* pipeline runs to its end for every worker count and interleaving, the data
\* rows of the final output are the parsed records, one per input file, and
\* the merged error file holds its header row alone
C2_AllRecordsMerged ==
    AllParse =>
        /\ pc # "failed"
        /\ \A x \in Tasks : wpc[x] # "crashed"
        /\ ~Stuck
        /\ pc = "done" =>
              /\ include_headers => fs[FinalOutPath].rows[1] = NoteFields
              /\ Len(FinalDataRows) = Len(file_paths)
              /\ Range(FinalDataRows) =
                    { Row(Note(k, Message(k))) : k \in DOMAIN file_paths }
              /\ fs[FinalErrPath].rows = << ErrorHeader >>

\* two files have been parsed by two workers, the second worker has finished
\* first, and the pipeline has reached its end without headers
C2_Witness ==
    /\ AllParse
    /\ pc = "done"
    /\ ~include_headers
    /\ task_count = 2
    /\ results = << OutPath(1), OutPath(0) >>
    /\ Len(fs[FinalOutPath].rows) = 2

\* C3: the ranges handed to the workers are pairwise disjoint and cover the
\* reordered input; a worker gives the parser the items of its own range
\* only, no item is parsed by two workers or twice, and when
\* do_multi_process has returned every item has been parsed exactly once
C3_EveryItemOnce ==
    /\ slice_ranges # <<>> =>
          /\ Len(slice_ranges) = task_count
          /\ \A idx \in 0..(Len(sorted_file_paths) - 1) :
                Cardinality({ x \in JobTasks :
                                slice_start(x) <= idx /\ idx < slice_end(x) }) = 1
    /\ \A x \in Tasks : \A q \in DOMAIN calls[x] :
          calls[x][q] = sorted_file_paths[slice_start(x) + q]
    /\ \A p \in Range(file_paths) : TimesParsed(p, MaxFiles - 1) <= 1
    /\ Returned => \A p \in Range(file_paths) : TimesParsed(p, MaxFiles - 1) = 1

\* two workers have parsed one file each, in an order that is not the
\* caller's, and do_multi_process has returned
C3_Witness ==
    /\ Returned
    /\ task_count = 2
    /\ sorted_file_paths = << FilePath(2), FilePath(1) >>
    /\ calls[0] = << FilePath(2) >>
    /\ calls[1] = << FilePath(1) >>

\* C4: do_multi_process starts exactly taskCount workers, one for each task
\* index 0..taskCount-1, and the list it returns holds exactly taskCount
\* results, one of each worker
C4_OneWorkerPerTask ==
    /\ { x \in Tasks : wpc[x] # "unstarted" } = 0..(started - 1)
    /\ started <= task_count
    /\ pc \in { "collect", "merge_out", "merge_err", "remove", "done" }
          => started = task_count
    /\ Returned =>
          /\ Len(results) = task_count
          /\ \A x \in JobTasks : Occurrences(results, OutPath(x)) = 1

\* two workers were started and do_multi_process has returned two results
C4_Witness ==
    /\ Returned
    /\ task_count = 2
    /\ started = 2
    /\ Len(results) = 2
    /\ wpc[0] # "unstarted"
    /\ wpc[1] # "unstarted"

\* the number of tasks do_multi_process has cut the work load into
Cut == Len(slice_ranges)

\* every worker of the call has put its result
AllPut ==
    /\ started > 0
    /\ started = Cut
    /\ \A x \in 0..(Cut - 1) : wpc[x] \in { "exiting", "exited" }

\* C5: do_multi_process does not return before it has taken taskCount results
\* from the queue; once every worker has put its result it returns, with the
\* results in their order of arrival; when a worker dies without a result it
\* never returns
C5_ReturnsWithAllResults ==
    /\ [](pc = "returned" => Returned)
    /\ [](Returned => /\ Len(results) = Cut
                       /\ results = arrival
                       /\ \A x \in 0..(Cut - 1) : wpc[x] \in { "exiting", "exited" })
    /\ (AllPut ~> pc = "returned")
    /\ []((\E x \in Tasks : wpc[x] = "crashed") => [](pc # "returned"))

\* do_multi_process has returned the result of worker 1 before that of worker 0
C5_Witness ==
    /\ pc = "returned"
    /\ arrival = << OutPath(1), OutPath(0) >>
    /\ results = << OutPath(1), OutPath(0) >>

\* C6: a worker fault outside the try of the loop is fatal to the job: the job
\* ends as a failure and does not go on to a merged output
C6_WorkerFaultEndsJob ==
    (\E x \in Tasks : wpc[x] = "crashed") =>
        /\ pc \notin { "merge_out", "merge_err", "remove", "done" }
        /\ pc = "failed" \/ ENABLED Next

\* the error rows of the paths ps: one for each path the parser fails on
RECURSIVE ErrorRowsOf(_)
ErrorRowsOf(ps) ==
    IF ps = <<>> THEN <<>>
    ELSE (IF parser_func[Head(ps)].kind = "raise"
          THEN << << Head(ps), Traceback >> >> ELSE <<>>) \o ErrorRowsOf(Tail(ps))

\* the output rows of the paths ps: those of the records the parser returns
RECURSIVE OutputRowsOf(_)
OutputRowsOf(ps) ==
    IF ps = <<>> THEN <<>>
    ELSE (IF parser_func[Head(ps)].kind \in { "record", "list" }
          THEN [ q \in DOMAIN parser_func[Head(ps)].value |->
                    << ToString(parser_func[Head(ps)].value[q].id),
                       parser_func[Head(ps)].value[q].message >> ]
          ELSE <<>>) \o OutputRowsOf(Tail(ps))

\* C7: a worker gives the parser each item of its range once, in range order;
\* an item the parser fails on adds one (path, detail) row to the worker's
\* error file and nothing to its output file, and the worker goes on with the
\* next item and puts its result
C7_ParseFailureIsolated ==
    \A x \in Tasks :
        (wpc[x] \in { "loop", "exiting", "exited", "crashed" } /\ pc # "done") =>
            /\ calls[x] = SubSeq(sorted_file_paths, slice_start(x) + 1,
                                 wi[x] + (IF wpc[x] = "crashed" THEN 1 ELSE 0))
            /\ fs[ErrPath(x)].rows = << ErrorHeader >> \o ErrorRowsOf(calls[x])
            /\ fs[OutPath(x)].rows =
                  (IF csv_headers # <<>> THEN << csv_headers >> ELSE <<>>)
                      \o OutputRowsOf(calls[x])
            /\ wpc[x] = "crashed" => parser_func[calls[x][Len(calls[x])]].kind = "none"
            /\ wpc[x] = "loop" => ENABLED WorkerNext(x)
            /\ wpc[x] \in { "exiting", "exited" } =>
                  /\ calls[x] = SubSeq(sorted_file_paths, slice_start(x) + 1,
                                       slice_end(x))
                  /\ Occurrences(arrival, OutPath(x)) = 1

\* a worker with two items has put its result: the parser failed on the first
\* item, which is in the error file, and the record of the second one is in
\* the output file
C7_Witness ==
    /\ wpc[0] = "exiting"
    /\ pc = "collect"
    /\ Len(calls[0]) = 2
    /\ parser_func[calls[0][1]] = Raises
    /\ parser_func[calls[0][2]].kind = "record"
    /\ fs[ErrPath(0)].rows = << ErrorHeader, << calls[0][1], Traceback >> >>
    /\ Len(fs[OutPath(0)].rows) = 1

RangeLen(r) == r[2] - r[1]

\* C8: for itemCount >= 1 and taskCount in [1, itemCount] the slicer returns
\* taskCount half-open ranges, each starting where the one before ends, the
\* first at 0 and the last ending at itemCount, none empty, every index of
\* [0, itemCount) in exactly one of them, and no two lengths more than 1 apart
C8_SliceRangesPartition ==
    (p_pc = "sliced" /\ p_num_tasks <= p_data_count) =>
        /\ Len(p_ranges) = p_num_tasks
        /\ p_ranges[1][1] = 0
        /\ p_ranges[p_num_tasks][2] = p_data_count
        /\ \A y \in 1..(p_num_tasks - 1) : p_ranges[y][2] = p_ranges[y + 1][1]
        /\ \A y \in 1..p_num_tasks : p_ranges[y][1] < p_ranges[y][2]
        /\ \A idx \in 0..(p_data_count - 1) :
              Cardinality({ y \in 1..p_num_tasks :
                              p_ranges[y][1] <= idx /\ idx < p_ranges[y][2] }) = 1
        /\ \A y, z \in 1..p_num_tasks :
              RangeLen(p_ranges[y]) - RangeLen(p_ranges[z]) <= 1

\* 8 items over 3 tasks have been sliced, into ranges of 3, 3 and 2
C8_Witness ==
    /\ p_pc = "sliced"
    /\ p_num_tasks = 3
    /\ p_data_count = 8
    /\ p_ranges = << << 0, 3 >>, << 3, 6 >>, << 6, 8 >> >>

\* C9: with q = itemCount div taskCount and r = itemCount mod taskCount the
\* first r ranges have length q + 1 and the other taskCount - r have length q
C9_LongRangesFirst ==
    p_pc = "sliced" =>
        LET q == p_data_count \div p_num_tasks
            r == p_data_count % p_num_tasks
        IN  /\ Len(p_ranges) = p_num_tasks
            /\ \A y \in 1..p_num_tasks :
                  RangeLen(p_ranges[y]) = IF y <= r THEN q + 1 ELSE q

\* 14 items over 8 tasks: six ranges of 2 followed by two ranges of 1
C9_Witness ==
    /\ p_pc = "sliced"
    /\ p_num_tasks = 8
    /\ p_data_count = 14
    /\ p_ranges = << << 0, 2 >>, << 2, 4 >>, << 4, 6 >>, << 6, 8 >>, << 8, 10 >>,
                     << 10, 12 >>, << 12, 13 >>, << 13, 14 >> >>

Clamp(v, lo, hi) == IF v < lo THEN lo ELSE IF v > hi THEN hi ELSE v

\* C10: on a non-empty input get_num_tasks returns
\* clamp(availableCores - reserved, 1, itemCount): at least 1, at most the
\* item count, and availableCores - reserved itself when that is in
\* [1, itemCount]
C10_NumTasksClamped ==
    p_pc = "counted" =>
        /\ p_tasks = Clamp(CPU_COUNT - cores_to_reserve, 1, p_data_count)
        /\ p_tasks >= 1
        /\ p_tasks <= p_data_count
        /\ (CPU_COUNT - cores_to_reserve) \in 1..p_data_count
              => p_tasks = CPU_COUNT - cores_to_reserve

\* more cores are reserved than the host has, and one task is the answer for
\* a collection of several items
C10_Witness ==
    /\ p_pc = "counted"
    /\ cores_to_reserve > CPU_COUNT
    /\ p_data_count > 1
    /\ p_tasks = 1

\* the position in 1..Len(s) that a stable sort by descending size gives the
\* item at position q of s: behind every larger item and behind the items of
\* its own size that come before it in s
RankBySize(s, size, q) ==
    Cardinality({ r \in DOMAIN s : size[s[r]] > size[s[q]] })
    + Cardinality({ r \in DOMAIN s : r < q /\ size[s[r]] = size[s[q]] })
    + 1

\* how many of the indexes 0..n-1 are dealt to bucket j of k
BucketSize(n, k, j) == Cardinality({ i \in 0..(n - 1) : i % k = j })

RECURSIVE BucketsBefore(_, _, _)
BucketsBefore(n, k, j) ==
    IF j = 0 THEN 0 ELSE BucketSize(n, k, j - 1) + BucketsBefore(n, k, j - 1)

\* the position in the result of the item at index i (from 0) of the sorted
\* list: bucket i mod k, place i div k in it, the buckets one behind the other
DealtPosition(n, k, i) == BucketsBefore(n, k, i % k) + (i \div k) + 1

\* C11: the result of sort_file_paths_for_load_balancing has the length of
\* the input and holds every item as many times as the input does, for every
\* task_count >= 1, also when it does not divide the number of items
C11_LoadBalanceIsPermutation ==
    s_pc \in { "sorted", "sliced" } =>
        /\ Len(sorted_file_paths) = Len(file_paths)
        /\ \A k \in 1..MaxSortFiles :
             Occurrences(sorted_file_paths, FilePath(k))
                = Occurrences(file_paths, FilePath(k))

\* three items or more, reordered by a task_count that does not divide their
\* number
C11_Witness ==
    /\ s_pc = "sorted"
    /\ Len(file_paths) >= 3
    /\ task_count > 1
    /\ Len(file_paths) % task_count # 0
    /\ sorted_file_paths # file_paths

\* C12: the item at position q of the input is in the result where the
\* round-robin deal puts the item of its rank in the stable descending
\* order by size: bucket (rank - 1) mod task_count, the buckets concatenated
\* in bucket order
C12_SortedDealtRoundRobin ==
    s_pc \in { "sorted", "sliced" } =>
        /\ Len(sorted_file_paths) = Len(file_paths)
        /\ \A q \in DOMAIN file_paths :
             sorted_file_paths[DealtPosition(Len(file_paths), task_count,
                                             RankBySize(file_paths, st_size, q) - 1)]
                = file_paths[q]

\* two different files of one size behind a smaller one, dealt to two buckets
\* or more
C12_Witness ==
    /\ s_pc = "sorted"
    /\ task_count >= 2
    /\ Len(file_paths) > task_count
    /\ \E q, r \in DOMAIN file_paths :
         /\ q < r
         /\ file_paths[q] # file_paths[r]
         /\ st_size[file_paths[q]] = st_size[file_paths[r]]
         /\ \E t \in DOMAIN file_paths :
              t < q /\ st_size[file_paths[t]] < st_size[file_paths[q]]

\* every input of the list can be opened and, when headers are declared, has
\* a first row
InputsWellFormed ==
    \A q \in DOMAIN m_input_paths :
        /\ fs[m_input_paths[q]].exists
        /\ include_headers => fs[m_input_paths[q]].rows # <<>>

\* the data rows of an input file: all rows but the first when headers are
\* declared
DataRowsOf(file) == IF include_headers THEN Tail(file.rows) ELSE file.rows

\* the data rows of the inputs of a list, in list order and file order
AllDataRows(paths) == Flatten([ q \in DOMAIN paths |-> DataRowsOf(fs[paths[q]]) ])

\* the header row of the first input, when headers are declared
HeaderPart ==
    IF include_headers /\ m_input_paths # <<>>
    THEN << Head(fs[m_input_paths[1]].rows) >>
    ELSE <<>>

\* the positions of d that hold the first row with their identity value
FirstOccurrences(d) ==
    { q \in DOMAIN d : \A r \in 1..(q - 1) : d[r][IdIndex] # d[q][IdIndex] }

\* C13: without an identity class the merge of inputs that can be read
\* returns, and the output is the header row of the first input once (when
\* headers are declared) and then every data row of every input, in list
\* order and file order; without headers no row of any input is left out
C13_MergeKeepsEveryRow ==
    (m_pc # "merge" /\ entry_class = "None" /\ InputsWellFormed) =>
        /\ final_output.ok
        /\ final_output.rows = HeaderPart \o AllDataRows(m_input_paths)
        /\ ~include_headers =>
             final_output.rows =
                Flatten([ q \in DOMAIN m_input_paths |-> fs[m_input_paths[q]].rows ])
        /\ m_pc = "merged" => fs[FinalOutPath] = File(final_output.rows)

\* two different inputs with a header and a data row each, merged without
\* an identity class
C13_Witness ==
    /\ m_pc = "merged"
    /\ entry_class = "None"
    /\ include_headers
    /\ Len(m_input_paths) = 2
    /\ m_input_paths[1] # m_input_paths[2]
    /\ \A q \in 1..2 : /\ fs[m_input_paths[q]].exists
                         /\ Len(fs[m_input_paths[q]].rows) >= 2
                         /\ fs[m_input_paths[q]].rows[1] = NoteFields
    /\ fs[m_input_paths[1]].rows[2] # fs[m_input_paths[2]].rows[2]
    /\ Len(final_output.rows) = 3

\* C14: with an identity class the data rows of the output are the rows of
\* the inputs that are the first with their identity value, in the order of
\* the inputs, and the merge of the input list repeated twice writes what the
\* merge of the list writes
C14_MergeFirstSeenWins ==
    (m_pc # "merge" /\ entry_class = "Note") =>
        /\ InputsWellFormed =>
             LET d == AllDataRows(m_input_paths)
                 keep == FirstOccurrences(d)
                 out == final_output.rows
                 h == Len(HeaderPart)
             IN  /\ final_output.ok
                 /\ Len(out) = h + Cardinality(keep)
                 /\ SubSeq(out, 1, h) = HeaderPart
                 /\ \A q \in keep :
                      out[h + Cardinality({ r \in keep : r <= q })] = d[q]
        /\ m_pc = "merged_twice" => final_output_twice = final_output

\* both merges done on two different inputs that share an identity value
\* with different rows and hold another one too
C14_Witness ==
    /\ m_pc = "merged_twice"
    /\ entry_class = "Note"
    /\ InputsWellFormed
    /\ Len(m_input_paths) = 2
    /\ m_input_paths[1] # m_input_paths[2]
    /\ LET d == AllDataRows(m_input_paths) IN
        /\ Cardinality(FirstOccurrences(d)) >= 2
        /\ \E q, r \in DOMAIN d :
             q < r /\ d[q][IdIndex] = d[r][IdIndex] /\ d[q] # d[r]
        /\ Len(final_output.rows) < Len(HeaderPart) + Len(d)

\* the list position of the first input that cannot be opened, 0 when every
\* input can
FirstMissing ==
    LET missing == { q \in DOMAIN m_input_paths : ~fs[m_input_paths[q]].exists }
    IN  IF missing = {} THEN 0
        ELSE CHOOSE q \in missing : \A r \in missing : q <= r

\* C16: a merge with an input that cannot be opened does not return: it
\* ends with the error, and no row of that input or of an input behind it in
\* the list has been written
C16_MissingInputFailsMerge ==
    (m_pc # "merge" /\ FirstMissing # 0) =>
        /\ ~final_output.ok
        /\ Len(final_output.rows)
             <= Len(Flatten([ q \in 1..(FirstMissing - 1) |->
                                fs[m_input_paths[q]].rows ]))
        /\ m_pc = "merged_twice" => ~final_output_twice.ok

\* the first input was read and written, the second one is missing
C16_Witness ==
    /\ m_pc = "merged"
    /\ Len(m_input_paths) = 2
    /\ fs[m_input_paths[1]].exists
    /\ ~fs[m_input_paths[2]].exists
    /\ final_output.rows # <<>>
    /\ ~final_output.ok

\* C15: a run with are_ids_unique that completes leaves no two data rows
\* with the same identity value in the final output, with include_headers
\* and without
C15_DedupRequestedNoDuplicateIds ==
    (pc = "done" /\ are_ids_unique) =>
        \A q, r \in DOMAIN FinalDataRows :
            q # r => FinalDataRows[q][IdIndex] # FinalDataRows[r][IdIndex]

\* the per-worker output files and error logs in the output folder
RemainingOutputs == { x \in Tasks : fs[OutPath(x)].exists }

RemainingErrorLogs == { x \in Tasks : fs[ErrPath(x)].exists }

\* C17: when the run has completed the output folder holds the final output
\* and the final error file and neither the output file nor the error log of
\* any worker 0..task_count-1 of the job, and as many per-worker output files
\* as per-worker error logs remain
C17_IntermediatesRemoved ==
    pc = "done" =>
        /\ fs[FinalOutPath].exists
        /\ fs[FinalErrPath].exists
        /\ \A x \in JobTasks : ~fs[OutPath(x)].exists /\ ~fs[ErrPath(x)].exists
        /\ Cardinality(RemainingOutputs) = Cardinality(RemainingErrorLogs)

\* a run of two workers that wrote a record and an error row has completed
C17_Witness ==
    /\ pc = "done"
    /\ task_count = 2
    /\ Len(fs[FinalErrPath].rows) = 2
    /\ FinalDataRows # <<>>

\* the downloaded file of an item is in the output directory
HasFile(item_id) == DownloadedFile(item_id) \in listdir

\* a page file of an item is in the output directory
HasPage(item_id) == \E n \in 1..MaxPages : PageFile(item_id, n) \in listdir

\* the number of rows of an item in the error log
ErrorRows(item_id) == Occurrences(error_log.rows, ToString(item_id))

\* C18: when mass_download has returned, every requested item id has, in
\* single-page mode, either its downloaded file or one row in the error log
\* and not both, and in multi-page mode a page file or a row in the error log
C18_EveryIdAccountedFor ==
    d_pc = "returned" =>
        \A q \in DOMAIN item_ids :
            LET item_id == item_ids[q] IN
            IF get_max_page_expression = "None"
            THEN /\ HasFile(item_id) \/ ErrorRows(item_id) >= 1
                 /\ ~(HasFile(item_id) /\ ErrorRows(item_id) >= 1)
                 /\ ErrorRows(item_id) <= 1
            ELSE HasPage(item_id) \/ ErrorRows(item_id) >= 1

\* the item had downloaded data on disk when the call was made: its file, or
\* in multi-page mode a page file
HadData(item_id) ==
    IF get_max_page_expression = "None"
    THEN DownloadedFile(item_id) \in d_at_start.listdir
    ELSE \E n \in 1..MaxPages : PageFile(item_id, n) \in d_at_start.listdir

\* the item had a row in the error log when the call was made
HadErrorRow(item_id) == ToString(item_id) \in Range(d_at_start.error_log.rows)

\* C19: a call of mass_download issues no request for an item that had its
\* downloaded data on disk or a row in the error log when the call was made,
\* and a call made after a call over the same ids has returned issues no
\* request and leaves the output directory as it found it, in single-page
\* and in multi-page mode
C19_ResumeSkipsWithoutRequest ==
    /\ \A item_id \in d_requested : ~HadData(item_id) /\ ~HadErrorRow(item_id)
    /\ d_completed =>
         /\ d_requested = {}
         /\ d_requests = 0
         /\ listdir = d_at_start.listdir
         /\ error_log = d_at_start.error_log

\* C20 as stated: in single-page and in multi-page mode a call of
\* mass_download never issues more than download_burst_count network
\* requests in succession without sleeping
C20_BurstBoundsRequests == d_requests <= download_burst_count

\* C20, amended: never more than download_burst_count items are attempted in
\* succession without sleeping; the call sleeps after the attempt of every
\* download_burst_count-th item that was not skipped, before the next
\* request, and only then; in single-page mode the bound is one on the
\* network requests too, while an item of multi-page mode takes up to two
\* requests and one for every page
C20_BurstBoundsAttemptedItems ==
    /\ d_attempted <= download_burst_count
    /\ d_pc = "sleep" => d_attempted = download_burst_count
    /\ d_pc \in { "loop", "returned" } => d_attempted < download_burst_count
    /\ get_max_page_expression = "None" => d_requests <= download_burst_count
    /\ get_max_page_expression # "None" => d_requests <= d_attempted * (2 + MaxPages)

\* a resumed call has skipped its first item, attempted the second one
\* without a sleep, as the burst is of two, and returned
C20_Witness ==
    /\ d_pc = "returned"
    /\ d_run = 2
    /\ download_burst_count = 2
    /\ Len(item_ids) = 2
    /\ ToString(item_ids[1]) \in existing_downloaded_data
    /\ d_attempted = 1
    /\ download_count = 1

\* the item of rank r (from 1) in the stable descending order by size
ItemOfRank(r) ==
    file_paths[CHOOSE q \in DOMAIN file_paths :
                   RankBySize(file_paths, st_size, q) = r]

\* C21: range x of get_multiprocess_slice_ranges(k, n), applied to the
\* result of sort_file_paths_for_load_balancing(items, k), holds exactly the
\* items dealt to bucket x, those of rank x + 1, x + 1 + k, x + 1 + 2k, ..
\* in the descending order by size, also when k does not divide n
C21_RangesAreBuckets ==
    s_pc = "sliced" =>
        \A x \in 0..(task_count - 1) :
            LET first == slice_ranges[x + 1][1]
                len == slice_ranges[x + 1][2] - first
            IN  /\ len = BucketSize(Len(file_paths), task_count, x)
                /\ \A m \in 1..len :
                     sorted_file_paths[first + m]
                        = ItemOfRank(x + (m - 1) * task_count + 1)

\* three items in two buckets, of two items and of one, the order changed
C21_Witness ==
    /\ s_pc = "sliced"
    /\ Len(file_paths) = 3
    /\ task_count = 2
    /\ sorted_file_paths # file_paths
    /\ slice_ranges = << << 0, 2 >>, << 2, 3 >> >>

\* the positions of the load-balanced order whose file gives the parser a
\* non-empty record or collection of records
Productive == { q \in DOMAIN sorted_file_paths :
                  Truthy(parser_func[sorted_file_paths[q]]) }

\* C22: with headers requested and a file that yields a non-empty record,
\* header derivation ends at the first such file of the load-balanced order,
\* whatever the files before it do (yield nothing or fail to parse), and the
\* header is the field names of its record
C22_HeaderFromFirstProductiveFile ==
    ( /\ include_headers
      /\ pc \notin { "partition", "headers" }
      /\ Productive # {} )
    => /\ csv_headers = NoteFields
       /\ cls = "Note"
       /\ probe_i \in Productive
       /\ \A q \in Productive : probe_i <= q

\* C23: with headers requested and no file that yields a non-empty record,
\* the pipeline does not get past header derivation: it has a next step
\* until it has failed, no header is set, no worker is started and no file
\* of the job is created
C23_NoHeaderIsSetupFailure ==
    ( /\ include_headers
      /\ \A p \in Range(file_paths) : ~Truthy(parser_func[p]) )
    => /\ pc \in { "partition", "headers", "failed" }
       /\ pc # "failed" => ENABLED MainNext
       /\ probe_i <= Len(sorted_file_paths)
       /\ csv_headers = <<>>
       /\ started = 0
       /\ \A x \in Tasks : wpc[x] = "unstarted"
       /\ \A p \in AllPaths : ~fs[p].exists

\* two files that yield nothing have been probed and the pipeline has failed
C23_Witness ==
    /\ include_headers
    /\ Len(file_paths) = 2
    /\ \A p \in Range(file_paths) : parser_func[p] \in { ReturnsNone, ReturnsList(<<>>) }
    /\ probe_i = 2
    /\ pc = "failed"

\* the steps from one phase of the pipeline to the next one, and those that
\* end it with an exception
PhaseOrder ==
    { << "partition", "headers" >>, << "partition", "dispatch" >>,
      << "headers", "dispatch" >>, << "dispatch", "start" >>,
      << "start", "collect" >>, << "collect", "merge_out" >>,
      << "merge_out", "merge_err" >>, << "merge_err", "remove" >>,
      << "remove", "done" >> }
        \cup { << ph, "failed" >> : ph \in { "partition", "headers", "dispatch",
                                             "merge_out", "merge_err", "remove" } }

\* a per-worker file of the job that exists before the step is gone after it
ArtifactDeleted ==
    \E x \in JobTasks : \E p \in { OutPath(x), ErrPath(x) } :
        fs[p].exists /\ ~fs'[p].exists

\* C24: the phases of the pipeline follow one another in the order partition,
\* dispatch, merge of the outputs, merge of the error logs, removal of the
\* intermediates; the merge of the outputs starts with all task_count results
\* returned, the final output is written before the merged error file, and a
\* per-worker file is deleted only by the removal step, with both merged files
\* written
C24_PhasesInOrder ==
    [][ /\ pc' # pc => << pc, pc' >> \in PhaseOrder
        /\ (pc' = "merge_out" /\ pc # "merge_out") =>
              /\ Len(results') = task_count
              /\ num_tasks' = 0
              /\ started = task_count
        /\ fs'[FinalOutPath] # fs[FinalOutPath] =>
              /\ pc = "merge_out"
              /\ Len(results) = task_count
              /\ ~fs[FinalErrPath].exists
        /\ fs'[FinalErrPath] # fs[FinalErrPath] =>
              /\ pc = "merge_err"
              /\ fs[FinalOutPath].exists
        /\ ArtifactDeleted =>
              /\ pc = "remove"
              /\ fs[FinalOutPath].exists
              /\ fs[FinalErrPath].exists
              /\ fs'[FinalOutPath] = fs[FinalOutPath]
              /\ fs'[FinalErrPath] = fs[FinalErrPath] ]_vars

\* a job of two tasks has gone through every phase: both results have been
\* returned, both merged files are written and the intermediates are gone
C24_Witness ==
    /\ pc = "done"
    /\ task_count = 2
    /\ Len(results) = 2
    /\ fs[FinalOutPath].exists
    /\ fs[FinalErrPath].exists
    /\ ~fs[OutPath(1)].exists

\* the merge and cleanup phases
MergePhases == { "merge_out", "merge_err", "remove", "done" }

\* C25 as stated: in the merge and cleanup phases every worker process of the
\* job has exited
C25_MergeAfterWorkersExited ==
    pc \in MergePhases => \A x \in JobTasks : wpc[x] = "exited"

\* C25, amended: in the merge and cleanup phases every worker of the job has
\* put its result, which is the last statement of its task, so that it has
\* nothing left to do but to exit; its process may not have exited yet
C25_MergeAfterWorkersPut ==
    pc \in MergePhases =>
        \A x \in JobTasks :
            /\ wpc[x] \in { "exiting", "exited" }
            /\ OutPath(x) \in Range(results)
            /\ wpc[x] = "exiting" => ENABLED WorkerExit(x)

\* the merge of the outputs is about to start and a worker that has put its
\* result has not exited yet
C25_Witness ==
    /\ pc = "merge_out"
    /\ task_count = 2
    /\ wpc[0] = "exited"
    /\ wpc[1] = "exiting"

\* the step is one of the started worker x
StepOf(x) ==
    /\ wpc[x] # "unstarted"
    /\ wpc'[x] # wpc[x] \/ wi'[x] # wi[x] \/ calls'[x] # calls[x]

\* file g is file f with rows appended, or f was absent
Appended(f, g) ==
    /\ g.exists
    /\ f.exists =>
          /\ Len(g.rows) >= Len(f.rows)
          /\ SubSeq(g.rows, 1, Len(f.rows)) = f.rows

\* C26: a per-worker file changes only in a step of the worker of its task
\* index, which creates it or appends to it, or in the removal step of the
\* main process; a step of a worker leaves the files and the position of every
\* other worker alone, and the final files, and of the state of the main
\* process it changes the completion queue only
C26_WorkersOwnTheirArtifacts ==
    [][ \A x \in Tasks :
          /\ \A p \in { OutPath(x), ErrPath(x) } :
                fs'[p] # fs[p] =>
                    \/ /\ StepOf(x)
                       /\ wpc[x] \in { "begin", "loop" }
                       /\ Appended(fs[p], fs'[p])
                    \/ /\ pc = "remove"
                       /\ pc' # pc
                       /\ ~fs'[p].exists
          /\ StepOf(x) =>
                /\ \A y \in Tasks \ { x } :
                      /\ ~StepOf(y)
                      /\ fs'[OutPath(y)] = fs[OutPath(y)]
                      /\ fs'[ErrPath(y)] = fs[ErrPath(y)]
                /\ fs'[FinalOutPath] = fs[FinalOutPath]
                /\ fs'[FinalErrPath] = fs[FinalErrPath]
                /\ UNCHANGED << pc, task_count, sorted_file_paths, probe_i,
                                csv_headers, cls, num_tasks, slice_ranges,
                                started, results >> ]_vars

\* two workers are in their loops at the same time and each has appended a row
\* to a file of its own
C26_Witness ==
    /\ wpc[0] = "loop"
    /\ wpc[1] = "loop"
    /\ Len(fs[OutPath(0)].rows) + Len(fs[ErrPath(0)].rows) > 1 + (IF include_headers THEN 1 ELSE 0)
    /\ Len(fs[OutPath(1)].rows) + Len(fs[ErrPath(1)].rows) > 1 + (IF include_headers THEN 1 ELSE 0)

\* worker x can still write to a file
CanWrite(x) == ENABLED WorkerCreateFiles(x) \/ ENABLED WorkerParseItem(x)

\* C27: the result of a worker is on its way exactly when the worker has gone
\* through its whole range, it is put once, and a worker that has put it writes
\* no more; once do_multi_process has returned, every worker of the job has
\* put its result and none can write to a file
C27_PutAfterLastAppend ==
    /\ \A x \in Tasks :
          /\ Occurrences(arrival, OutPath(x)) =
                (IF wpc[x] \in { "exiting", "exited" } THEN 1 ELSE 0)
          /\ wpc[x] \in { "exiting", "exited" } =>
                /\ wi[x] = slice_end(x)
                /\ Len(calls[x]) = slice_end(x) - slice_start(x)
                /\ ~CanWrite(x)
                /\ ~ENABLED WorkerPut(x)
    /\ Returned =>
          /\ Len(arrival) = Len(slice_ranges)
          /\ \A x \in Tasks : ~CanWrite(x)

\* do_multi_process has returned the results of two workers that have each
\* written a row, and the merge has not started
C27_Witness ==
    /\ Returned
    /\ pc = "merge_out"
    /\ Len(arrival) = 2
    /\ \A x \in { 0, 1 } : Len(calls[x]) = 1 /\ parser_func[calls[x][1]].kind \in { "raise", "record" }

\* the rows of d without those whose identity value an earlier row has
RECURSIVE FirstSeen(_, _)
FirstSeen(d, seen) ==
    IF d = <<>> THEN <<>>
    ELSE IF Head(d)[IdIndex] \in seen
         THEN FirstSeen(Tail(d), seen)
         ELSE << Head(d) >> \o FirstSeen(Tail(d), seen \cup { Head(d)[IdIndex] })

\* the load-balanced order of the input files, from the inputs alone
InputOrder ==
    sort_file_paths_for_load_balancing(
        file_paths, st_size, get_num_tasks(cores_to_reserve, file_paths))

\* the final output as the inputs determine it: the header row when headers
\* are included, then the rows of the records in load-balanced order, which
\* is task-index order and range order, less the rows with an identity seen
\* before when identities are unique and a record class is known
ExpectedOutput ==
    (IF include_headers THEN << NoteFields >> ELSE <<>>)
        \o (IF are_ids_unique /\ include_headers
            THEN FirstSeen(OutputRowsOf(InputOrder), {})
            ELSE OutputRowsOf(InputOrder))

\* the merged error file as the inputs determine it
ExpectedErrors == << ErrorHeader >> \o ErrorRowsOf(InputOrder)

\* C28: the final output and the merged error file of a job that has merged
\* them are functions of the inputs and the task count: whatever the order in
\* which the workers ran and put their results, the rows are those of the
\* files in task-index order and, within a task, in range order
C28_FinalFilesDeterminedByInputs ==
    /\ pc \in { "merge_err", "remove", "done" } =>
          fs[FinalOutPath] = File(ExpectedOutput)
    /\ pc \in { "remove", "done" } =>
          fs[FinalErrPath] = File(ExpectedErrors)

\* a job of two tasks has completed with the second worker's result put first:
\* the record of the first range comes first in the final output all the same
C28_Witness ==
    /\ pc = "done"
    /\ task_count = 2
    /\ results = << OutPath(1), OutPath(0) >>
    /\ \A p \in Range(file_paths) : parser_func[p].kind \in { "record", "list" }
    /\ Len(fs[FinalOutPath].rows) >= 2

\* C29: every data row of the final output and every row of the merged error
\* file of a completed job comes from the job's own input files, whatever the
\* output folder held when the job began
C29_OnlyOwnRows ==
    pc = "done" =>
        /\ Range(FinalDataRows) \subseteq Range(OutputRowsOf(sorted_file_paths))
        /\ Range(Tail(fs[FinalErrPath].rows))
              \subseteq Range(ErrorRowsOf(sorted_file_paths))

\* C30: do_multi_process called with an empty data collection starts no worker
\* and returns an empty list of results without raising
C30_EmptyDataReturnsEmpty ==
    (called = "do_multi_process" /\ sorted_file_paths = <<>>) =>
        /\ pc # "failed"
        /\ started = 0
        /\ results = <<>>
        /\ pc = "dispatch" => ENABLED DispatchMainNext

====
